---- MODULE Spec2Model ----
(***************************************************************************)
(* Model of xgi's nuHypergraph.uniformize (src/xgi/core/nuhypergraph.py)   *)
(* and of the matrix constructions of src/xgi/linalg/matrix.py.            *)
(*                                                                         *)
(* Weights are Python floats in the code; they are modelled as exact       *)
(* rationals <<numerator, denominator>> in lowest terms.  A Python dict is *)
(* modelled as a TLA+ function; the result of uniformize does not depend   *)
(* on the iteration order of the dict (sums commute), so the keys are      *)
(* visited in a fixed order.                                               *)
(***************************************************************************)
EXTENDS Integers, Sequences, FiniteSets, TLC

\* ---------------------------------------------------------------- bounds
\* a hypergraph given to nuHypergraph has at most MaxNode nodes
MaxNode == 4
\* and its edge sizes add up to at most MaxIncidence
MaxIncidence == 4
\* number of uniformize calls made on one nuHypergraph
MaxCalls == 2
\* node identifiers of a hypergraph given to the matrix functions are drawn
\* from 0..MaxMatrixNode-1
MaxMatrixNode == 3
\* number of hyperedges of a hypergraph given to the matrix functions
MaxEdges == 2
\* largest explicit target arity m passed to uniformize
MaxM == 4
\* largest order passed to the matrix functions
MaxOrder == 2
\* largest threshold s passed to adjacency_matrix
MaxS == 2

VARIABLES
    H,          \* the source hypergraph: [nodes, edges], edges a sequence of member sets
    num_nodes,  \* nuHypergraph._num_nodes
    nodes,      \* nuHypergraph._nodes
    ds,         \* nuHypergraph._ds : member tuple -> weight
    pre,        \* snapshot of (_ds, _nodes, _num_nodes) on entry to the last uniformize call
    last,       \* the last uniformize call: its argument m, the arity used, its outcome
    calls,      \* number of uniformize calls made so far
    mcall,      \* the last matrix-function call: function name and arguments
    mres        \* what that call returned or raised

vars == <<H, num_nodes, nodes, ds, pre, last, calls, mcall, mres>>
nuvars == <<num_nodes, nodes, ds, pre, last, calls>>

\* ------------------------------------------------------------ arithmetic
RECURSIVE GCD(_, _)
GCD(a, b) == IF b = 0 THEN a ELSE GCD(b, a % b)

\* the rational n/d (d > 0) in lowest terms
Rat(n, d) == LET g == GCD(n, d) IN <<n \div g, d \div g>>

RatAdd(p, q) == Rat(p[1] * q[2] + q[1] * p[2], p[2] * q[2])

RECURSIVE factorial(_)
factorial(n) == IF n <= 0 THEN 1 ELSE n * factorial(n - 1)

\* comb without the (n-k)! factor: the number of arrangements, not of combinations
comb_arrangements(n, k) == IF k < 0 \/ k > n THEN 0
                           ELSE factorial(n) \div factorial(n - k)

comb(n, k) == IF k < 0 \/ k > n THEN 0
              ELSE factorial(n) \div (factorial(k) * factorial(n - k))

\* ------------------------------------------------------------ sequences
Min(S) == CHOOSE x \in S : \A y \in S : x <= y
Max(S) == CHOOSE x \in S : \A y \in S : y <= x

\* tuple(k) for a member set k: small non-negative ints iterate in ascending order
RECURSIVE tuple(_)
tuple(S) == IF S = {} THEN <<>> ELSE <<Min(S)>> \o tuple(S \ {Min(S)})

\* the order in which the keys of a dict of tuples are visited
KeyLess(a, b) ==
    \/ Len(a) < Len(b)
    \/ /\ Len(a) = Len(b)
       /\ \E i \in 1..Len(a) : a[i] < b[i] /\ \A j \in 1..(i - 1) : a[j] = b[j]

RECURSIVE keys(_)
keys(K) == IF K = {} THEN <<>>
           ELSE LET k == CHOOSE x \in K : \A y \in K \ {x} : KeyLess(x, y)
                IN  <<k>> \o keys(K \ {k})

\* itertools.combinations(edge, r): the r-length subsequences, in lexicographic
\* order of positions
RECURSIVE combinations(_, _)
combinations(edge, r) ==
    IF r = 0 THEN << <<>> >>
    ELSE IF Len(edge) < r THEN <<>>
    ELSE LET withHead == combinations(Tail(edge), r - 1)
         IN  [i \in 1..Len(withHead) |-> <<Head(edge)>> \o withHead[i]]
             \o combinations(Tail(edge), r)

\* ------------------------------------------------------ nuHypergraph.__init__
init_ds(uh) == [k \in {tuple(uh.edges[i]) : i \in 1..Len(uh.edges)} |-> <<1, 1>>]

\* Every edge of a hypergraph is a non-empty set of its nodes, and edges are
\* added in a fixed order (by size, then by members).
\*
\* The hypergraphs given to the matrix functions: node identifiers below n, at
\* most MaxEdges edges, equal edges included.
InOrder(es) == \A i, j \in 1..Len(es) : i < j => ~KeyLess(tuple(es[j]), tuple(es[i]))

Hypergraphs(n) ==
    UNION { { [nodes |-> ns, edges |-> es] :
                es \in { q \in UNION { [1..k -> (SUBSET ns) \ {{}}] : k \in 0..MaxEdges } :
                            InOrder(q) } } :
            ns \in SUBSET (0..(n - 1)) }

\* The hypergraphs given to nuHypergraph: nodes lo..lo+n-1 (identifiers counted
\* from 0 or from 1), distinct edges (equal member tuples are one key of _ds)
\* whose sizes add up to at most MaxIncidence.
RECURSIVE Incidences(_)
Incidences(E) == IF E = {} THEN 0
                 ELSE LET e == CHOOSE x \in E : TRUE
                      IN  Cardinality(e) + Incidences(E \ {e})

\* the sets of at most k edges over the nodes ns
RECURSIVE EdgeSets(_, _)
EdgeSets(ns, k) ==
    IF k = 0 THEN {{}}
    ELSE LET P == EdgeSets(ns, k - 1)
         IN  P \cup { X \in { E \cup {e} : E \in P, e \in (SUBSET ns) \ {{}} } :
                        Incidences(X) <= MaxIncidence }

RECURSIVE edge_seq(_)
edge_seq(E) ==
    IF E = {} THEN <<>>
    ELSE LET e == CHOOSE x \in E : \A y \in E \ {x} : KeyLess(tuple(x), tuple(y))
         IN  <<e>> \o edge_seq(E \ {e})

NodeSets == { lo..(lo + n - 1) : lo \in 0..1, n \in 0..MaxNode }

UniformizeInputs ==
    UNION { { [nodes |-> ns, edges |-> edge_seq(E)] :
                E \in EdgeSets(ns, MaxIncidence) } :
            ns \in NodeSets }

NoCall == [t |-> "None", n |-> 0, d |-> 1]

\* nuHypergraph(uh) for a hypergraph uh of the family F
Construct(F) ==
    /\ H \in F
    /\ num_nodes = Cardinality(H.nodes)
    /\ nodes = H.nodes
    /\ ds = init_ds(H)
    /\ pre = [ds |-> ds, nodes |-> nodes, num_nodes |-> num_nodes]
    /\ last = [m |-> NoCall, arity |-> 0, outcome |-> "constructed"]
    /\ calls = 0
    /\ mcall = [f |-> "none"]
    /\ mres = [kind |-> "none"]

Init == Construct(UniformizeInputs)

InitM == Construct(Hypergraphs(MaxMatrixNode))

\* ------------------------------------------------------ nuHypergraph.uniformize
\* the values of the argument m: None, an int, or a float n/d
MValues ==
    {NoCall}
    \cup { [t |-> "int", n |-> i, d |-> 1] : i \in (-1)..MaxM }
    \cup { [t |-> "float", n |-> 0, d |-> 1], [t |-> "float", n |-> 5, d |-> 2] }

\* Python truthiness of m: None, 0 and 0.0 are falsy
truthy(m) == m.t # "None" /\ m.n # 0

max_len(d) == Max({Len(k) : k \in DOMAIN d})

\* line 85-88: the arity used, or the exception raised while finding it
arity(d, m) ==
    IF ~truthy(m)
    THEN IF DOMAIN d = {} THEN [exc |-> "ValueError", m |-> 0]
         ELSE [exc |-> "none", m |-> max_len(d)]
    ELSE IF m.t # "int" THEN [exc |-> "AssertionError", m |-> 0]
         ELSE [exc |-> "none", m |-> m.n]

\* line 84, 89-90: N, one more than the node count when the condition holds
reserve(d, n, m) ==
    IF Cardinality(DOMAIN d) # 1 THEN n + 1
    ELSE IF m <= max_len(d) THEN n + 1
    ELSE n

\* lines 103-106 and 111-114: add entry to new_ds[key]
accumulate(new_ds, key, entry) ==
    IF key \in DOMAIN new_ds
    THEN [new_ds EXCEPT ![key] = RatAdd(@, entry)]
    ELSE new_ds @@ (key :> entry)

RECURSIVE accumulate_all(_, _, _)
accumulate_all(new_ds, indcomb, entry) ==
    IF indcomb = <<>> THEN new_ds
    ELSE accumulate_all(accumulate(new_ds, Head(indcomb), entry), Tail(indcomb), entry)

\* the padding loop written as an `if`: at most one identifier is appended
pad_once(edge, m, N) == IF Len(edge) < m THEN edge \o <<N - 1>> ELSE edge

\* lines 97-98: the edge extended to length m with the padding identifier
pad(edge, m, N) == edge \o [i \in 1..(m - Len(edge)) |-> N - 1]

\* the loop body without the `not N - 1 in self._nodes` test: the node count is
\* raised for every padded edge
process_counting_each(st, hyperedge, m, N) ==
    LET initial_len == Len(hyperedge) IN
    IF initial_len <= m
    THEN LET edge == pad(hyperedge, m, N)
             entry == Rat(factorial(initial_len), factorial(Len(edge)))
         IN  [new_ds |-> accumulate(st.new_ds, edge, entry),
              nodes |-> IF initial_len < m THEN st.nodes \cup {N - 1} ELSE st.nodes,
              num_nodes |-> IF initial_len < m THEN st.num_nodes + 1 ELSE st.num_nodes]
    ELSE LET entry == Rat(1, factorial(m) * comb(initial_len, m))
         IN  [st EXCEPT !.new_ds =
                 accumulate_all(st.new_ds, combinations(hyperedge, m), entry)]

\* lines 93-114: one iteration of the loop over the hyperedges
\* st = [new_ds, nodes, num_nodes]
process(st, hyperedge, m, N) ==
    LET initial_len == Len(hyperedge) IN
    IF initial_len <= m
    THEN LET edge == pad(hyperedge, m, N)
             added == initial_len < m /\ (N - 1) \notin st.nodes
             entry == Rat(factorial(initial_len), factorial(Len(edge)))
         IN  [new_ds |-> accumulate(st.new_ds, edge, entry),
              nodes |-> IF added THEN st.nodes \cup {N - 1} ELSE st.nodes,
              num_nodes |-> IF added THEN st.num_nodes + 1 ELSE st.num_nodes]
    ELSE LET entry == Rat(1, factorial(m) * comb(initial_len, m))
         IN  [st EXCEPT !.new_ds =
                 accumulate_all(st.new_ds, combinations(hyperedge, m), entry)]

RECURSIVE loop(_, _, _, _)
loop(st, ks, m, N) ==
    IF ks = <<>> THEN st
    ELSE loop(process(st, Head(ks), m, N), Tail(ks), m, N)

\* combinations(edge, m) raises ValueError for negative m, on the first hyperedge
loop_raises(d, m) == m < 0 /\ DOMAIN d # {}

\* an exception raised by a call ends the run: it leaves the object as it was
uniformize(m) ==
    LET a == arity(ds, m)
        N == reserve(ds, num_nodes, a.m)
        st == loop([new_ds |-> <<>>, nodes |-> nodes, num_nodes |-> num_nodes],
                   keys(DOMAIN ds), a.m, N)
    IN
    /\ calls < MaxCalls
    /\ last.outcome \in {"constructed", "ok"}
    /\ calls' = calls + 1
    /\ pre' = [ds |-> ds, nodes |-> nodes, num_nodes |-> num_nodes]
    /\ IF a.exc # "none"
       THEN /\ last' = [m |-> m, arity |-> 0, outcome |-> a.exc]
            /\ UNCHANGED <<ds, nodes, num_nodes>>
       ELSE IF loop_raises(ds, a.m)
       THEN /\ last' = [m |-> m, arity |-> a.m, outcome |-> "ValueError"]
            /\ UNCHANGED <<ds, nodes, num_nodes>>
       ELSE /\ last' = [m |-> m, arity |-> a.m, outcome |-> "ok"]
            /\ ds' = st.new_ds
            /\ nodes' = st.nodes
            /\ num_nodes' = st.num_nodes
    /\ UNCHANGED <<H, mcall, mres>>

Uniformize == \E m \in MValues : uniformize(m)

NextU == Uniformize

SpecU == Init /\ [][NextU]_vars

\* ------------------------------------------------------------ numpy arrays
\* An array is [shape, at]: at maps the index tuples (0-based) to rationals.
RatMul(p, q) == Rat(p[1] * q[1], p[2] * q[2])
RatSub(p, q) == Rat(p[1] * q[2] - q[1] * p[2], p[2] * q[2])
RatLess(p, q) == p[1] * q[2] < q[1] * p[2]
int(p) == <<p[1] \div p[2], 1>>

RECURSIVE SeqSum(_)
SeqSum(q) == IF q = <<>> THEN <<0, 1>> ELSE RatAdd(Head(q), SeqSum(Tail(q)))

\* np.array([])
EmptyArray == [shape |-> <<0>>, at |-> <<>>]

Indices(r, c) == (0..(r - 1)) \X (0..(c - 1))

\* np.zeros((r, c))
zeros(r, c) == [shape |-> <<r, c>>, at |-> [ij \in Indices(r, c) |-> <<0, 1>>]]

\* csr_matrix((data, (rows, cols))): the shape is inferred from the largest row
\* and column index, entries at the same position are added up
csr_matrix(coo) ==
    LET r == Max({coo[k][1] : k \in 1..Len(coo)}) + 1
        c == Max({coo[k][2] : k \in 1..Len(coo)}) + 1
        here(ij) == SelectSeq(coo, LAMBDA e : e[1] = ij[1] /\ e[2] = ij[2])
    IN  [shape |-> <<r, c>>,
         at |-> [ij \in Indices(r, c) |->
                    SeqSum([k \in 1..Len(here(ij)) |-> here(ij)[k][3]])]]

\* I.dot(I.T)
dot_T(I) ==
    LET r == I.shape[1]
        c == I.shape[2]
    IN  [shape |-> <<r, r>>,
         at |-> [ij \in Indices(r, r) |->
                    SeqSum([k \in 1..c |->
                        RatMul(I.at[<<ij[1], k - 1>>], I.at[<<ij[2], k - 1>>])])]]

\* A.setdiag(0)
setdiag0(A) ==
    [A EXCEPT !.at = [ij \in DOMAIN A.at |-> IF ij[1] = ij[2] THEN <<0, 1>> ELSE A.at[ij]]]

\* np.diag(v) for a 1-D array v, scaled by the integer k
scaled_diag(k, v) ==
    LET n == v.shape[1]
    IN  [shape |-> <<n, n>>,
         at |-> [ij \in Indices(n, n) |->
                    IF ij[1] = ij[2] THEN RatMul(<<k, 1>>, v.at[<<ij[1]>>]) ELSE <<0, 1>>]]

\* numpy broadcasting of two dimensions: -1 when they are incompatible
broadcast_dim(a, b) == IF a = b THEN a ELSE IF a = 1 THEN b ELSE IF b = 1 THEN a ELSE -1

\* X - Y for 2-D arrays, with broadcasting
subtract(X, Y) ==
    LET r == broadcast_dim(X.shape[1], Y.shape[1])
        c == broadcast_dim(X.shape[2], Y.shape[2])
        pick(A, ij) == <<IF A.shape[1] = 1 THEN 0 ELSE ij[1],
                         IF A.shape[2] = 1 THEN 0 ELSE ij[2]>>
    IN  IF r < 0 \/ c < 0 THEN [exc |-> "ValueError"]
        ELSE [exc |-> "none",
              shape |-> <<r, c>>,
              at |-> [ij \in Indices(r, c) |-> RatSub(X.at[pick(X, ij)], Y.at[pick(Y, ij)])]]

\* ------------------------------------------------------------ hypergraph view
\* edge identifiers are 0, 1, ... in insertion order
all_edge_ids(h) == [i \in 1..Len(h.edges) |-> i - 1]
members(h, e) == h.edges[e + 1]
memberships(h, node) == SelectSeq(all_edge_ids(h), LAMBDA e : node \in members(h, e))
InSeq(x, q) == \E i \in 1..Len(q) : q[i] = x

NoOrder == [none |-> TRUE, v |-> 0]
Order(i) == [none |-> FALSE, v |-> i]

\* dict(zip(ids, range(len(ids)))) and its inverse
index_of(ids) == [x \in {ids[i] : i \in 1..Len(ids)} |-> (CHOOSE i \in 1..Len(ids) : ids[i] = x) - 1]
id_of(ids) == [i \in 0..(Len(ids) - 1) |-> ids[i + 1]]

\* ------------------------------------------------------------ incidence_matrix
\* lines 76-89: the (row, col, data) entries emitted for one node
node_entries(h, node, edge_ids, w, node_dict, edge_dict) ==
    LET ms == SelectSeq(memberships(h, node), LAMBDA e : InSeq(e, edge_ids))
    IN  IF Len(ms) > 0
        THEN [k \in 1..Len(ms) |-> <<node_dict[node], edge_dict[ms[k]], w>>]
        ELSE [k \in 1..Len(edge_ids) |-> <<node_dict[node], edge_dict[edge_ids[k]], <<0, 1>> >>]

RECURSIVE coo_entries(_, _, _, _, _, _)
coo_entries(h, node_ids, edge_ids, w, node_dict, edge_dict) ==
    IF node_ids = <<>> THEN <<>>
    ELSE node_entries(h, Head(node_ids), edge_ids, w, node_dict, edge_dict)
         \o coo_entries(h, Tail(node_ids), edge_ids, w, node_dict, edge_dict)

\* lines 93-97: np.zeros(..., dtype=int), then one assignment per member
dense(h, node_ids, edge_ids, w, node_dict, edge_dict) ==
    [shape |-> <<Len(node_ids), Len(edge_ids)>>,
     at |-> [ij \in Indices(Len(node_ids), Len(edge_ids)) |->
                IF id_of(node_ids)[ij[1]] \in members(h, id_of(edge_ids)[ij[2]])
                THEN int(w) ELSE <<0, 1>>]]

\* the weight function is a constant w; the result is (I, rowdict, coldict),
\* of which only I is returned when index is false
incidence_matrix(h, order, sparse, index, w) ==
    LET edge_ids == IF order.none THEN all_edge_ids(h)
                    ELSE SelectSeq(all_edge_ids(h),
                                   LAMBDA e : Cardinality(members(h, e)) = order.v + 1)
        node_ids == tuple(h.nodes)
        node_dict == index_of(node_ids)
        edge_dict == index_of(edge_ids)
        empty == [I |-> EmptyArray, rowdict |-> <<>>, coldict |-> <<>>]
    IN  IF edge_ids = <<>> THEN empty
        ELSE IF DOMAIN node_dict # {} /\ DOMAIN edge_dict # {}
        THEN [I |-> IF sparse
                    THEN csr_matrix(coo_entries(h, node_ids, edge_ids, w, node_dict, edge_dict))
                    ELSE dense(h, node_ids, edge_ids, w, node_dict, edge_dict),
              rowdict |-> IF index THEN id_of(node_ids) ELSE <<>>,
              coldict |-> IF index THEN id_of(edge_ids) ELSE <<>>]
        ELSE empty

\* ------------------------------------------------------------ adjacency_matrix
\* lines 153-156: threshold at s
threshold(A, s, weighted) ==
    [A EXCEPT !.at = [ij \in DOMAIN A.at |->
        IF weighted
        THEN IF RatLess(A.at[ij], <<s, 1>>) THEN <<0, 1>> ELSE A.at[ij]
        ELSE IF RatLess(A.at[ij], <<s, 1>>) THEN <<0, 1>> ELSE <<1, 1>>]]

adjacency_matrix(h, order, s, weighted, index) ==
    LET r == incidence_matrix(h, order, TRUE, TRUE, <<1, 1>>)
        n == Cardinality(h.nodes)
    IN  IF r.I.shape = <<0>>
        THEN IF r.coldict = <<>> THEN [exc |-> "none", A |-> zeros(n, n), rowdict |-> <<>>]
             ELSE IF r.rowdict = <<>> THEN [exc |-> "none", A |-> EmptyArray, rowdict |-> <<>>]
             ELSE [exc |-> "UnboundLocalError"]
        ELSE [exc |-> "none",
              A |-> threshold(setdiag0(dot_T(r.I)), s, weighted),
              rowdict |-> IF index THEN r.rowdict ELSE <<>>]

\* ------------------------------------------------------------ _degree, laplacian
\* the degree taken over the edges of all orders
_degree_all_orders(h, order) ==
    LET r == incidence_matrix(h, NoOrder, TRUE, FALSE, <<1, 1>>)
    IN  IF r.I.shape = <<0>> THEN EmptyArray
        ELSE [shape |-> <<r.I.shape[1]>>,
              at |-> [i \in {<<k>> : k \in 0..(r.I.shape[1] - 1)} |->
                        SeqSum([c \in 1..r.I.shape[2] |-> r.I.at[<<i[1], c - 1>>]])]]

\* np.ravel(_degree(H, order)): the row sums of the incidence matrix
_degree(h, order) ==
    LET r == incidence_matrix(h, order, TRUE, FALSE, <<1, 1>>)
    IN  IF r.I.shape = <<0>> THEN EmptyArray
        ELSE [shape |-> <<r.I.shape[1]>>,
              at |-> [i \in {<<k>> : k \in 0..(r.I.shape[1] - 1)} |->
                        SeqSum([c \in 1..r.I.shape[2] |-> r.I.at[<<i[1], c - 1>>]])]]

\* L / order
rescale(L, order) == [L EXCEPT !.at = [ij \in DOMAIN L.at |-> Rat(L.at[ij][1], L.at[ij][2] * order)]]

laplacian(h, order, rescale_per_node, index) ==
    LET a == adjacency_matrix(h, Order(order), 1, TRUE, TRUE)
        K == _degree(h, Order(order))
        L == subtract(scaled_diag(order, K), a.A)
    IN  IF a.exc # "none" THEN [exc |-> a.exc]
        ELSE IF a.A.shape = <<0>> THEN [exc |-> "none", L |-> EmptyArray, rowdict |-> <<>>]
        ELSE IF L.exc # "none" THEN [exc |-> L.exc]
        ELSE [exc |-> "none",
              L |-> IF rescale_per_node THEN rescale([shape |-> L.shape, at |-> L.at], order)
                    ELSE [shape |-> L.shape, at |-> L.at],
              rowdict |-> IF index THEN a.rowdict ELSE <<>>]

\* ------------------------------------------------------------ matrix calls
Orders == {NoOrder} \cup {Order(i) : i \in 0..MaxOrder}
Weights == {<<1, 1>>, <<2, 1>>, <<1, 2>>}

\* the matrix functions are pure: each behaviour applies one of them to H
IncidenceCall ==
    /\ mcall.f = "none"
    /\ \E order \in Orders, sparse \in BOOLEAN, index \in BOOLEAN, w \in Weights :
          /\ mcall' = [f |-> "incidence_matrix", order |-> order, sparse |-> sparse,
                       index |-> index, weight |-> w]
          /\ mres' = incidence_matrix(H, order, sparse, index, w)
    /\ UNCHANGED <<H, nuvars>>

AdjacencyCall ==
    /\ mcall.f = "none"
    /\ \E order \in Orders, s \in (-1)..MaxS, weighted \in BOOLEAN, index \in BOOLEAN :
          /\ mcall' = [f |-> "adjacency_matrix", order |-> order, s |-> s,
                       weighted |-> weighted, index |-> index]
          /\ mres' = adjacency_matrix(H, order, s, weighted, index)
    /\ UNCHANGED <<H, nuvars>>

LaplacianCall ==
    /\ mcall.f = "none"
    /\ \E order \in 1..MaxOrder, rescale_per_node \in BOOLEAN, index \in BOOLEAN :
          /\ mcall' = [f |-> "laplacian", order |-> order,
                       rescale_per_node |-> rescale_per_node, index |-> index]
          /\ mres' = laplacian(H, order, rescale_per_node, index)
    /\ UNCHANGED <<H, nuvars>>

NextM == IncidenceCall \/ AdjacencyCall \/ LaplacianCall

SpecM == InitM /\ [][NextM]_vars

\* ---------------------------------------------------------- uniformize: claims
Snapshot == [ds |-> ds, nodes |-> nodes, num_nodes |-> num_nodes]

\* the last uniformize call returned normally
Returned == last.outcome = "ok"

\* the edge k extended to length m with the identifier p
Extended(k, m, p) == k \o [i \in 1..(m - Len(k)) |-> p]

RECURSIVE RatSum(_, _)
RatSum(f, K) == IF K = {} THEN <<0, 1>>
                ELSE LET k == CHOOSE x \in K : TRUE
                     IN  RatAdd(f[k], RatSum(f, K \ {k}))

\* C1: uniformize(m) with m above the maximum edge size, on a snapshot whose
\* nodes are 0..N-1, pads every edge with one identifier that was not a node
\* before the call, gives the padded edge weight k!/m!, and grows the node set
\* and the node count by exactly one -- also when the snapshot has one edge.
C1_PaddingUsesNewNode ==
    ( /\ Returned
      /\ last.m.t = "int"
      /\ DOMAIN pre.ds # {}
      /\ last.arity > max_len(pre.ds)
      /\ pre.nodes = 0..(pre.num_nodes - 1) )
    => \E p \in nodes \ pre.nodes :
          /\ nodes = pre.nodes \cup {p}
          /\ num_nodes = pre.num_nodes + 1
          /\ DOMAIN ds = {Extended(k, last.arity, p) : k \in DOMAIN pre.ds}
          /\ \A k \in DOMAIN pre.ds :
                ds[Extended(k, last.arity, p)]
                    = Rat(factorial(Len(k)), factorial(last.arity))

\* the m-element position sets of an edge, and the members at those positions
PositionSets(e, m) == {P \in SUBSET (1..Len(e)) : Cardinality(P) = m}
MembersAt(e, P) == [i \in 1..Cardinality(P) |-> e[tuple(P)[i]]]

\* what one edge e of the snapshot contributes to the key t of the result:
\* sub[e] maps the position sets of an over-sized edge e to the members there,
\* p is the padding identifier
Contribution(e, t, m, p, sub) ==
    IF Len(e) > m
    THEN Rat(Cardinality({P \in DOMAIN sub[e] : sub[e][P] = t}),
             factorial(m) * Cardinality(DOMAIN sub[e]))
    ELSE IF Extended(e, m, p) = t THEN Rat(factorial(Len(e)), factorial(m))
    ELSE <<0, 1>>

RECURSIVE Contributions(_, _, _, _, _)
Contributions(E, t, m, p, sub) ==
    IF E = {} THEN <<0, 1>>
    ELSE LET e == CHOOSE x \in E : TRUE
         IN  RatAdd(Contribution(e, t, m, p, sub), Contributions(E \ {e}, t, m, p, sub))

\* every over-sized edge is replaced by its m-element combinations, members in
\* the edge's order, each of weight 1/(m!*C(k,m)), summed on key collision
SplitGeneral ==
    (Returned /\ \E e \in DOMAIN pre.ds : Len(e) > last.arity) =>
        LET m == last.arity
            p == reserve(pre.ds, pre.num_nodes, m) - 1
            sub == [e \in {x \in DOMAIN pre.ds : Len(x) > m} |->
                       [P \in PositionSets(e, m) |-> MembersAt(e, P)]]
        IN  /\ \A e \in DOMAIN sub : \A P \in DOMAIN sub[e] : sub[e][P] \in DOMAIN ds
            /\ \A t \in DOMAIN ds : ds[t] = Contributions(DOMAIN pre.ds, t, m, p, sub)

SplitInstance == Returned /\ DOMAIN pre.ds = {<<0, 1, 2, 3>>} /\ last.arity = 2

\* C2 as stated: the split of a size-k edge into C(k,m) entries of weight
\* 1/(m!*C(k,m)); for the single edge (0,1,2,3) and m=2, 6 entries of weight
\* 1/12 whose weights sum to 4/12 = 1/3.
C2_SplitSumsToOneThird ==
    /\ SplitGeneral
    /\ SplitInstance =>
          /\ Cardinality(DOMAIN ds) = 6
          /\ \A t \in DOMAIN ds : ds[t] = <<1, 12>>
          /\ RatSum(ds, DOMAIN ds) = <<1, 3>>

\* C2 amended: as above, but the 6 weights of 1/12 sum to 6/12 = 1/2.
C2_SplitSumsToOneHalf ==
    /\ SplitGeneral
    /\ SplitInstance =>
          /\ Cardinality(DOMAIN ds) = 6
          /\ \A t \in DOMAIN ds : ds[t] = <<1, 12>>
          /\ RatSum(ds, DOMAIN ds) = <<1, 2>>

C2_Witness == SplitInstance /\ Cardinality(DOMAIN ds) = 6

\* C3: after a uniformize call on a non-empty degree sequence with a positive
\* integer m, or with m omitted (m = the maximum edge size), every key of the
\* degree sequence has length exactly m.
C3_KeysHaveArity ==
    ( /\ Returned
      /\ DOMAIN pre.ds # {}
      /\ \/ last.m.t = "None"
         \/ last.m.t = "int" /\ last.m.n >= 1 )
    => /\ last.arity = IF last.m.t = "None" THEN max_len(pre.ds) ELSE last.m.n
       /\ DOMAIN ds # {}
       /\ \A k \in DOMAIN ds : Len(k) = last.arity

\* a call that splits a sequence which an earlier call had padded
C3_Witness ==
    /\ Returned
    /\ last.m.t = "int"
    /\ calls = 2
    /\ pre.nodes # H.nodes
    /\ \E k \in DOMAIN pre.ds : Len(k) > last.arity + 1
    /\ Cardinality(DOMAIN ds) >= 2
    /\ \A k \in DOMAIN ds : Len(k) = last.arity

Uniform(d) == DOMAIN d # {} /\ \A j, k \in DOMAIN d : Len(j) = Len(k)

\* C4: uniformize with m unspecified on an already uniform degree sequence,
\* fresh or left by an earlier call, leaves the degree sequence (keys and
\* multiplicities), the node set and the node count as they were.
C4_UniformIsFixedPoint ==
    (Returned /\ last.m.t = "None" /\ Uniform(pre.ds)) => Snapshot = pre

\* C6: uniformize fails with an assertion error for every m that is not an
\* integer, 0.0 included, and then leaves degree sequence, node set and node
\* count untouched.
C6_NonIntegerRejected ==
    (last.outcome # "constructed" /\ last.m.t = "float") =>
        last.outcome = "AssertionError" /\ Snapshot = pre

\* C10: num_nodes always equals the cardinality of the node set, and one
\* uniformize call raises the node count by at most 1 and never lowers it.
C10_NodeCount ==
    /\ num_nodes = Cardinality(nodes)
    /\ pre.num_nodes <= num_nodes
    /\ num_nodes <= pre.num_nodes + 1
    /\ pre.nodes \subseteq nodes

C10_Witness ==
    /\ Returned
    /\ Cardinality({k \in DOMAIN pre.ds : Len(k) + 1 < last.arity}) >= 2
    /\ num_nodes = pre.num_nodes + 1
    /\ num_nodes = Cardinality(nodes)

\* ------------------------------------------------------------ matrices: claims
Size(A) == IF Len(A.shape) = 1 THEN A.shape[1] ELSE A.shape[1] * A.shape[2]

\* positions (1-based) of the edges of H selected by an order filter
Filtered(order) ==
    {e \in 1..Len(H.edges) : order.none \/ Cardinality(H.edges[e]) = order.v + 1}

\* the i-th node and the j-th filtered edge (0-based), in enumeration order
NodeAt(i) == tuple(H.nodes)[i + 1]
EdgeAt(order, j) == H.edges[tuple(Filtered(order))[j + 1]]

\* C5: laplacian(H, order) returns an empty array (and an empty index map) and
\* raises nothing whenever H has no edge of size order+1, whatever the number
\* of nodes of H.
C5_LaplacianEmptyNeverRaises ==
    (mcall.f = "laplacian" /\ Filtered(Order(mcall.order)) = {}) =>
        /\ mres.exc = "none"
        /\ Size(mres.L) = 0
        /\ mres.rowdict = <<>>

\* C7: incidence_matrix returns, sparse or dense, a matrix of shape
\* (num_nodes, num_filtered_edges) whose entry (i,j) is the weight when node i
\* is a member of filtered edge j and 0 otherwise; with no nodes or no filtered
\* edges it returns a 0-size array and empty index maps.
C7_IncidenceEntriesAreWeights ==
    mcall.f = "incidence_matrix" =>
        LET n == Cardinality(H.nodes)
            e == Cardinality(Filtered(mcall.order))
        IN  IF n = 0 \/ e = 0
            THEN Size(mres.I) = 0 /\ mres.rowdict = <<>> /\ mres.coldict = <<>>
            ELSE /\ mres.I.shape = <<n, e>>
                 /\ \A i \in 0..(n - 1), j \in 0..(e - 1) :
                       mres.I.at[<<i, j>>] =
                           IF NodeAt(i) \in EdgeAt(mcall.order, j)
                           THEN mcall.weight ELSE <<0, 1>>

\* C8: for every hypergraph, order filter, value of weighted and integer
\* threshold s, the matrix returned by adjacency_matrix is symmetric and has an
\* all-zero diagonal.
C8_AdjacencySymmetricZeroDiagonal ==
    mcall.f = "adjacency_matrix" =>
        /\ mres.exc = "none"
        /\ \A ij \in DOMAIN mres.A.at :
              /\ mres.A.at[ij] = mres.A.at[<<ij[2], ij[1]>>]
              /\ ij[1] = ij[2] => mres.A.at[ij] = <<0, 1>>

\* number of size-(order+1) edges that contain all the nodes of S
EdgesThrough(order, S) ==
    Cardinality({e \in Filtered(Order(order)) : S \subseteq H.edges[e]})

\* C9: when H has an edge of size order+1 (order >= 1), laplacian(H, order) has
\* diagonal entry order * (number of size-(order+1) edges through node i) and
\* off-diagonal entry minus the number of such edges through both i and j, all
\* divided by order when rescale_per_node is set.
C9_LaplacianEntries ==
    (mcall.f = "laplacian" /\ Filtered(Order(mcall.order)) # {}) =>
        LET n == Cardinality(H.nodes)
            scale == IF mcall.rescale_per_node THEN mcall.order ELSE 1
        IN  /\ mres.exc = "none"
            /\ mres.L.shape = <<n, n>>
            /\ \A i \in 0..(n - 1), j \in 0..(n - 1) :
                  mres.L.at[<<i, j>>] =
                      IF i = j
                      THEN Rat(mcall.order * EdgesThrough(mcall.order, {NodeAt(i)}), scale)
                      ELSE Rat(0 - EdgesThrough(mcall.order, {NodeAt(i), NodeAt(j)}), scale)
            /\ mcall.index => \A i \in 0..(n - 1) : mres.rowdict[i] = NodeAt(i)

C9_Witness ==
    /\ mcall.f = "laplacian"
    /\ mcall.order = 2
    /\ mcall.rescale_per_node
    /\ Cardinality(Filtered(Order(2))) = 1
    /\ Len(H.edges) = 2
    /\ mres.exc = "none"
    /\ \E ij \in DOMAIN mres.L.at : mres.L.at[ij] = <<-1, 2>>
    /\ \E ij \in DOMAIN mres.L.at : ij[1] = ij[2] /\ mres.L.at[ij] = <<1, 1>>

====
